---- MODULE Spec2Model ----
(***************************************************************************)
(* A model of the CHIP-8 interpreter of src/src/cpu.rs (struct Emulator,   *)
(* load_rom, emulator_cycle and the 35 opcode handlers) and of the key     *)
(* translator of src/src/input.rs (process_key).                           *)
(*                                                                         *)
(* The machine is the record `emu`, one field per field of the struct.     *)
(* A Rust panic (index out of bounds, arithmetic overflow in a build with  *)
(* overflow checks) ends the thread: the model records it in `panicked`    *)
(* and keeps the writes the handler had made up to that point.             *)
(***************************************************************************)
EXTENDS Integers, Sequences, FiniteSets

VARIABLES
    emu,              \* the Emulator struct
    panicked,         \* TRUE once a handler has panicked
    overflow_checks,  \* the build: TRUE = debug (overflow panics), FALSE = release (wraps)
    roms,             \* the directory of ROM files the driver is started on
    stdout,           \* number of "BEE!" lines printed so far
    load_result,      \* what the last load_rom call returned
    loaded,           \* the path the last load_rom call was given
    hist,             \* the last two calls (load_rom, emulator_cycle) with the
                      \* machine each started from, newest first
    cycles            \* number of emulator_cycle calls so far

vars == <<emu, panicked, overflow_checks, roms, stdout, load_result, loaded, hist, cycles>>

(***************************************************************************)
(* Program constants.                                                      *)
(***************************************************************************)
SCREEN_WIDTH == 640
SCREEN_HEIGHT == 320
MEMORY_SIZE == 4096
REGISTER_SIZE == 16
STACK_SIZE == 16
KEYPAD_SIZE == 16
PROGRAM_START == 512
U8_MOD == 256
U16_MOD == 65536
\* usize::MAX (2^64 - 1) is outside TLC's integers; the wrapped stack pointer of
\* a release build is written as -1, its two's complement reading.
USIZE_MAX == -1

FONTSET ==
    << 240, 144, 144, 144, 240,   32,  96,  32,  32, 112,
       240,  16, 240, 128, 240,  240,  16, 240,  16, 240,
       144, 144, 240,  16,  16,  240, 128, 240,  16, 240,
       240, 128, 240, 144, 240,  240,  16,  32,  64,  64,
       240, 144, 240, 144, 240,  240, 144, 240,  16, 240,
       240, 144, 240, 144, 144,  224, 144, 224, 144, 224,
       240, 128, 128, 128, 240,  224, 144, 144, 144, 224,
       240, 128, 240, 128, 240,  240, 128, 240, 128, 128 >>

(***************************************************************************)
(* Bounds of the model.                                                    *)
(***************************************************************************)
MaxCycles == 4     \* emulator_cycle calls in one behaviour
NumKeys == 1       \* how many symbols of KeySymbols the driver sends
MaxIdle == 1       \* cycles the driver may run before it loads the ROM

(***************************************************************************)
(* u8 helpers: bitwise operators, computed bit by bit.                     *)
(***************************************************************************)
RECURSIVE BitAnd(_, _)
BitAnd(a, b) ==
    IF a = 0 \/ b = 0 THEN 0
    ELSE ((a % 2) * (b % 2)) + 2 * BitAnd(a \div 2, b \div 2)

RECURSIVE BitOr(_, _)
BitOr(a, b) ==
    IF a = 0 THEN b
    ELSE IF b = 0 THEN a
    ELSE (IF (a % 2) + (b % 2) > 0 THEN 1 ELSE 0) + 2 * BitOr(a \div 2, b \div 2)

RECURSIVE BitXor(_, _)
BitXor(a, b) ==
    IF a = 0 THEN b
    ELSE IF b = 0 THEN a
    ELSE (((a % 2) + (b % 2)) % 2) + 2 * BitXor(a \div 2, b \div 2)

\* 0x80 >> i
ShiftedBit(i) == 128 \div (2 ^ i)

(***************************************************************************)
(* OpCode: the four nibbles of a 16-bit instruction word.                  *)
(***************************************************************************)
Nibbles(word) ==
    [ first  |-> (word \div 4096) % 16,
      second |-> (word \div 256) % 16,
      third  |-> (word \div 16) % 16,
      fourth |-> word % 16 ]

merged_opcode(op) ==
    op.first * 4096 + op.second * 256 + op.third * 16 + op.fourth

(***************************************************************************)
(* Emulator::new                                                           *)
(***************************************************************************)
new ==
    [ opcode          |-> Nibbles(0),
      memory          |-> [a \in 0..(MEMORY_SIZE - 1) |->
                              IF a < Len(FONTSET) THEN FONTSET[a + 1] ELSE 0],
      registers       |-> [r \in 0..(REGISTER_SIZE - 1) |-> 0],
      index_register  |-> 0,
      program_counter |-> PROGRAM_START,
      gfx             |-> {},   \* the cells <<y, x>> that hold 1; all others hold 0
      delay_timer     |-> 0,
      sound_timer     |-> 0,
      stack           |-> [s \in 0..(STACK_SIZE - 1) |-> 0],
      stack_pointer   |-> 0,
      keypad          |-> [k \in 0..(KEYPAD_SIZE - 1) |-> FALSE] ]

(***************************************************************************)
(* A running call: the machine `e`, whether the thread has panicked, and   *)
(* the lines printed.  Every handler maps a call to a call.                *)
(***************************************************************************)
Call(e, out) == [e |-> e, panic |-> FALSE, out |-> out]

Panic(c) == [c EXCEPT !.panic = TRUE]

get_register_vx(c) == c.e.registers[c.e.opcode.second]
get_register_vy(c) == c.e.registers[c.e.opcode.third]
set_register_vx(c, v) == [c EXCEPT !.e.registers[c.e.opcode.second] = v]
get_n(c) == merged_opcode(c.e.opcode) % 16
get_nn(c) == merged_opcode(c.e.opcode) % 256
get_nnn(c) == merged_opcode(c.e.opcode) % 4096

skip_next_instruction(c) ==
    [c EXCEPT !.e.program_counter = c.e.program_counter + 2]

(***************************************************************************)
(* fetch_opcode: the big-endian word at memory[pc], memory[pc + 1].        *)
(* Indexing the memory outside 0..4095 panics.                             *)
(***************************************************************************)
fetch_opcode(c) ==
    LET pc == c.e.program_counter IN
    IF pc >= MEMORY_SIZE \/ pc + 1 >= MEMORY_SIZE THEN Panic(c)
    ELSE [c EXCEPT !.e.opcode = Nibbles(c.e.memory[pc] * 256 + c.e.memory[pc + 1]),
                   !.e.program_counter = pc + 2]

(***************************************************************************)
(* The opcode handlers.                                                    *)
(***************************************************************************)
\* _0nnn run as a jump to the machine routine at NNN.
_0nnn_jumps(c) == [c EXCEPT !.e.program_counter = get_nnn(c)]

_0nnn(c) == c

_00e0(c) == [c EXCEPT !.e.gfx = {}]

\* _00ee that returns to the saved address itself.
_00ee_no_compensation(c) ==
    IF c.e.stack_pointer = 0
    THEN Panic(c)
    ELSE LET sp == c.e.stack_pointer - 1 IN
         [c EXCEPT !.e.stack_pointer = sp,
                   !.e.program_counter = c.e.stack[sp]]

\* stack_pointer -= 1 underflows at 0: a panic with overflow checks, else the
\* pointer wraps to usize::MAX and the index into the stack panics.
_00ee(c) ==
    IF c.e.stack_pointer = 0
    THEN IF overflow_checks THEN Panic(c)
         ELSE Panic([c EXCEPT !.e.stack_pointer = USIZE_MAX])
    ELSE LET sp == c.e.stack_pointer - 1 IN
         [c EXCEPT !.e.stack_pointer = sp,
                   !.e.program_counter = c.e.stack[sp] + 2]

_1nnn(c) == [c EXCEPT !.e.program_counter = get_nnn(c)]

_2nnn(c) ==
    IF c.e.stack_pointer >= STACK_SIZE THEN Panic(c)
    ELSE [c EXCEPT !.e.stack[c.e.stack_pointer] = c.e.program_counter - 2,
                   !.e.stack_pointer = c.e.stack_pointer + 1,
                   !.e.program_counter = get_nnn(c)]

_3xnn(c) ==
    IF get_register_vx(c) = get_nn(c) THEN skip_next_instruction(c) ELSE c

_4xnn(c) ==
    IF get_register_vx(c) # get_nn(c) THEN skip_next_instruction(c) ELSE c

_5xy0(c) ==
    IF get_register_vx(c) # get_register_vy(c) THEN skip_next_instruction(c) ELSE c

_6xnn(c) == set_register_vx(c, get_nn(c))

\* u8 += u8: panics on overflow with overflow checks, wraps without.
_7xnn(c) ==
    LET sum == get_register_vx(c) + get_nn(c) IN
    IF sum >= U8_MOD /\ overflow_checks THEN Panic(c)
    ELSE set_register_vx(c, sum % U8_MOD)

_8xy0(c) == set_register_vx(c, get_register_vy(c))

_8xy1(c) == set_register_vx(c, BitOr(get_register_vx(c), get_register_vy(c)))

_8xy2(c) == set_register_vx(c, BitAnd(get_register_vx(c), get_register_vy(c)))

_8xy3(c) == set_register_vx(c, BitXor(get_register_vx(c), get_register_vy(c)))

\* The flag is written to VF first and the result to Vx second.
_8xy4(c) ==
    LET sum      == get_register_vx(c) + get_register_vy(c)
        overflow == sum >= U8_MOD
        flagged  == [c EXCEPT !.e.registers[15] = IF overflow THEN 1 ELSE 0]
    IN  set_register_vx(flagged, sum % U8_MOD)

_8xy5(c) ==
    LET diff     == get_register_vx(c) - get_register_vy(c)
        overflow == diff < 0
        flagged  == [c EXCEPT !.e.registers[15] = IF overflow THEN 0 ELSE 1]
    IN  set_register_vx(flagged, diff % U8_MOD)

\* Vx is read again, after VF was written, for the shift.
_8xy6(c) ==
    LET flagged == [c EXCEPT !.e.registers[15] = BitAnd(get_register_vx(c), 1)]
    IN  set_register_vx(flagged, get_register_vx(flagged) \div 2)

_8xy7(c) ==
    LET diff     == get_register_vy(c) - get_register_vx(c)
        overflow == diff < 0
        flagged  == [c EXCEPT !.e.registers[15] = IF overflow THEN 0 ELSE 1]
    IN  set_register_vx(flagged, diff % U8_MOD)

_8xye(c) ==
    LET flagged == [c EXCEPT !.e.registers[15] = BitAnd(get_register_vx(c), 128)]
    IN  set_register_vx(flagged, (get_register_vx(flagged) * 2) % U8_MOD)

_9xy0(c) ==
    IF get_register_vx(c) # get_register_vy(c) THEN skip_next_instruction(c) ELSE c

_annn(c) == [c EXCEPT !.e.index_register = get_nnn(c)]

_bnnn(c) == [c EXCEPT !.e.program_counter = c.e.registers[0] + get_nnn(c)]

\* rnd is the byte rand::random::<u8>() returns.
_cxnn(c, rnd) == set_register_vx(c, BitAnd(rnd, get_nn(c)))

\* SpriteCells reading each row least significant bit first.
SpriteCells_lsb_first(e, vx, vy, n) ==
    { <<(vy + j) % SCREEN_HEIGHT, (vx + i) % SCREEN_WIDTH>> :
        <<j, i>> \in { ji \in (0..(n - 1)) \X (0..7) :
            BitAnd(e.memory[e.index_register + ji[1]], 2 ^ ji[2]) # 0 } }

\* The cells the sprite rows memory[I .. I + n) cover with a set bit, drawn at
\* (vx, vy) with wrap-around.  Rows and columns of one sprite never coincide
\* (n <= 15 < SCREEN_HEIGHT, 8 < SCREEN_WIDTH), so each cell is toggled once.
SpriteCells(e, vx, vy, n) ==
    { <<(vy + j) % SCREEN_HEIGHT, (vx + i) % SCREEN_WIDTH>> :
        <<j, i>> \in { ji \in (0..(n - 1)) \X (0..7) :
            BitAnd(e.memory[e.index_register + ji[1]], ShiftedBit(ji[2])) # 0 } }

\* _dxyn that sets the sprite's pixels instead of toggling them.
_dxyn_or(c) ==
    LET vx    == get_register_vx(c)
        vy    == get_register_vy(c)
        reset == [c EXCEPT !.e.registers[15] = 0]
        n     == get_n(c)
    IN  IF c.e.index_register + n > MEMORY_SIZE THEN Panic(reset)
        ELSE LET cells == { <<(vy + j) % SCREEN_HEIGHT, (vx + i) % SCREEN_WIDTH>> :
                              <<j, i>> \in { ji \in (0..(n - 1)) \X (0..7) :
                                  BitAnd(c.e.memory[c.e.index_register + ji[1]],
                                         128 \div (2 ^ ji[2])) # 0 } }
             IN  [reset EXCEPT
                     !.e.registers[15] = IF cells \cap c.e.gfx # {} THEN 1 ELSE 0,
                     !.e.gfx = c.e.gfx \cup cells]

\* VF is reset before the sprite slice is taken: a slice that ends past the
\* memory (or whose u16 end overflows) panics with VF already 0.
_dxyn(c) ==
    LET vx    == get_register_vx(c)
        vy    == get_register_vy(c)
        reset == [c EXCEPT !.e.registers[15] = 0]
        n     == get_n(c)
    IN  IF c.e.index_register + n > MEMORY_SIZE THEN Panic(reset)
        ELSE LET cells == SpriteCells(c.e, vx, vy, n) IN
             [reset EXCEPT
                 !.e.registers[15] = IF cells \cap c.e.gfx # {} THEN 1 ELSE 0,
                 !.e.gfx = (c.e.gfx \ cells) \cup (cells \ c.e.gfx)]

_ex9e(c) ==
    IF get_register_vx(c) >= KEYPAD_SIZE THEN Panic(c)
    ELSE IF c.e.keypad[get_register_vx(c)]
         THEN skip_next_instruction(c)
         ELSE [c EXCEPT !.e.program_counter = c.e.program_counter + 2]

_exa1(c) ==
    IF get_register_vx(c) >= KEYPAD_SIZE THEN Panic(c)
    ELSE IF ~c.e.keypad[get_register_vx(c)]
         THEN skip_next_instruction(c)
         ELSE [c EXCEPT !.e.program_counter = c.e.program_counter + 2]

_fx07(c) == set_register_vx(c, c.e.delay_timer)

_fx0a(c) ==
    LET back == [c EXCEPT !.e.program_counter = c.e.program_counter - 2] IN
    IF get_register_vx(back) >= KEYPAD_SIZE THEN Panic(back)
    ELSE IF back.e.keypad[get_register_vx(back)]
         THEN [set_register_vx(back, get_register_vx(back))
                  EXCEPT !.e.program_counter = back.e.program_counter + 2]
         ELSE back

_fx15(c) == [c EXCEPT !.e.delay_timer = get_register_vx(c)]

_fx18(c) == [c EXCEPT !.e.sound_timer = get_register_vx(c)]

\* u16 += u16: panics on overflow with overflow checks, wraps without.
_fx1e(c) ==
    LET sum == c.e.index_register + get_register_vx(c) IN
    IF sum >= U16_MOD /\ overflow_checks THEN Panic(c)
    ELSE [c EXCEPT !.e.index_register = sum % U16_MOD]

_fx29(c) == [c EXCEPT !.e.index_register = get_register_vx(c) * 5]

\* _fx33 storing Vx / 10 as the tens digit without reducing it modulo 10.
_fx33_tens_unreduced(c) ==
    LET vx == get_register_vx(c)
        i  == c.e.index_register
    IN  IF i + 2 >= MEMORY_SIZE THEN Panic(c)
        ELSE [c EXCEPT !.e.memory[i]     = vx \div 100,
                       !.e.memory[i + 1] = vx \div 10,
                       !.e.memory[i + 2] = vx % 10]

\* Three writes in order; the first index past the memory panics and the
\* writes before it stay.
_fx33(c) ==
    LET vx == get_register_vx(c)
        i  == c.e.index_register
        w1 == [c  EXCEPT !.e.memory[i]     = vx \div 100]
        w2 == [w1 EXCEPT !.e.memory[i + 1] = (vx \div 10) % 10]
        w3 == [w2 EXCEPT !.e.memory[i + 2] = vx % 10]
    IN  IF i >= MEMORY_SIZE THEN Panic(c)
        ELSE IF i + 1 >= MEMORY_SIZE THEN Panic(w1)
        ELSE IF i + 2 >= MEMORY_SIZE THEN Panic(w2)
        ELSE w3

\* _fx55 looping over 0..x, leaving Vx itself out of the dump.
_fx55_exclusive(c) ==
    LET i == c.e.index_register
        x == c.e.opcode.second
    IN  IF x > 0 /\ i + x - 1 >= MEMORY_SIZE THEN Panic(c)
        ELSE [c EXCEPT !.e.memory =
                 [a \in DOMAIN c.e.memory |->
                     IF a >= i /\ a < i + x THEN c.e.registers[a - i]
                     ELSE c.e.memory[a]]]

\* for i in 0..=x: the first index past the memory panics, earlier writes stay.
RECURSIVE reg_dump(_, _)
reg_dump(c, i) ==
    IF i > c.e.opcode.second THEN c
    ELSE IF c.e.index_register + i >= MEMORY_SIZE THEN Panic(c)
    ELSE reg_dump([c EXCEPT !.e.memory[c.e.index_register + i] = c.e.registers[i]],
                  i + 1)

_fx55(c) == reg_dump(c, 0)

RECURSIVE reg_load(_, _)
reg_load(c, i) ==
    IF i > c.e.opcode.second THEN c
    ELSE IF c.e.index_register + i >= MEMORY_SIZE THEN Panic(c)
    ELSE reg_load([c EXCEPT !.e.registers[i] = c.e.memory[c.e.index_register + i]],
                  i + 1)

_fx65(c) == reg_load(c, 0)

(***************************************************************************)
(* process_opcode: the second program_counter += 2, then the dispatch on   *)
(* the four nibbles, first matching row first.                             *)
(***************************************************************************)
dispatch(c, rnd) ==
    LET o == c.e.opcode
        a == o.first
        d == o.fourth
    IN  CASE a = 0 /\ o.second = 0 /\ o.third = 14 /\ d = 0  -> _00e0(c)
          [] a = 0 /\ o.second = 0 /\ o.third = 14 /\ d = 14 -> _00ee(c)
          [] a = 0  -> _0nnn(c)
          [] a = 1  -> _1nnn(c)
          [] a = 2  -> _2nnn(c)
          [] a = 3  -> _3xnn(c)
          [] a = 4  -> _4xnn(c)
          [] a = 5 /\ d = 0  -> _5xy0(c)
          [] a = 6  -> _6xnn(c)
          [] a = 7  -> _7xnn(c)
          [] a = 8 /\ d = 0  -> _8xy0(c)
          [] a = 8 /\ d = 1  -> _8xy1(c)
          [] a = 8 /\ d = 2  -> _8xy2(c)
          [] a = 8 /\ d = 3  -> _8xy3(c)
          [] a = 8 /\ d = 4  -> _8xy4(c)
          [] a = 8 /\ d = 5  -> _8xy5(c)
          [] a = 8 /\ d = 6  -> _8xy6(c)
          [] a = 8 /\ d = 7  -> _8xy7(c)
          [] a = 8 /\ d = 14 -> _8xye(c)
          [] a = 9 /\ d = 0  -> _9xy0(c)
          [] a = 10 -> _annn(c)
          [] a = 11 -> _bnnn(c)
          [] a = 12 -> _cxnn(c, rnd)
          [] a = 13 -> _dxyn(c)
          [] a = 14 /\ o.third = 9  /\ d = 14 -> _ex9e(c)
          [] a = 14 /\ o.third = 10 /\ d = 1  -> _exa1(c)
          [] a = 15 /\ o.third = 0 /\ d = 7   -> _fx07(c)
          [] a = 15 /\ o.third = 0 /\ d = 10  -> _fx0a(c)
          [] a = 15 /\ o.third = 1 /\ d = 5   -> _fx15(c)
          [] a = 15 /\ o.third = 1 /\ d = 8   -> _fx18(c)
          [] a = 15 /\ o.third = 1 /\ d = 14  -> _fx1e(c)
          [] a = 15 /\ o.third = 2 /\ d = 9   -> _fx29(c)
          [] a = 15 /\ o.third = 3 /\ d = 3   -> _fx33(c)
          [] a = 15 /\ o.third = 5 /\ d = 5   -> _fx55(c)
          [] a = 15 /\ o.third = 6 /\ d = 5   -> _fx65(c)
          [] OTHER -> c

process_opcode(c, rnd) ==
    dispatch([c EXCEPT !.e.program_counter = c.e.program_counter + 2], rnd)

\* update_timer as a buzzer that sounds on every tick of a running sound timer.
update_timer_beeps_while_running(c) ==
    LET d == IF c.e.delay_timer > 0
             THEN [c EXCEPT !.e.delay_timer = c.e.delay_timer - 1] ELSE c
    IN  IF d.e.sound_timer > 0
        THEN [d EXCEPT !.out = d.out + 1,
                       !.e.sound_timer = d.e.sound_timer - 1]
        ELSE d

\* update_timer without the guards: a wrapping decrement of both timers.
update_timer_wrapping(c) ==
    [c EXCEPT !.out = IF c.e.sound_timer = 1 THEN c.out + 1 ELSE c.out,
              !.e.delay_timer = (c.e.delay_timer - 1) % U8_MOD,
              !.e.sound_timer = (c.e.sound_timer - 1) % U8_MOD]

(***************************************************************************)
(* update_timer: "BEE!" is printed when the sound timer is 1 on entry.     *)
(***************************************************************************)
update_timer(c) ==
    LET d == IF c.e.delay_timer > 0
             THEN [c EXCEPT !.e.delay_timer = c.e.delay_timer - 1] ELSE c
    IN  IF d.e.sound_timer > 0
        THEN [d EXCEPT !.out = IF d.e.sound_timer = 1 THEN d.out + 1 ELSE d.out,
                       !.e.sound_timer = d.e.sound_timer - 1]
        ELSE d

(***************************************************************************)
(* emulator_cycle: fetch, execute, update the timers; a panic ends it.     *)
(***************************************************************************)
emulator_cycle(c, rnd) ==
    LET f == fetch_opcode(c) IN
    IF f.panic THEN f
    ELSE LET p == process_opcode(f, rnd) IN
         IF p.panic THEN p ELSE update_timer(p)

(***************************************************************************)
(* The files load_rom can be pointed at.  A path is a record naming what   *)
(* the file holds; File(path) is what File::open and file.bytes() give:    *)
(* whether the open succeeds, the bytes read, and whether the byte stream  *)
(* ends in a read error (as it does for a directory) instead of EOF.       *)
(***************************************************************************)
Word(a, x, y, d) == a * 4096 + x * 256 + y * 16 + d

Filler == Word(7, 14, 0, 1)     \* 7E01: VE += 1, visible if it is ever executed

RECURSIVE WordBytes(_)
WordBytes(words) ==
    IF words = <<>> THEN <<>>
    ELSE <<Head(words) \div 256, Head(words) % 256>> \o WordBytes(Tail(words))

Path(kind, a, b, op, op2) == [kind |-> kind, a |-> a, b |-> b, op |-> op, op2 |-> op2]
NoPath == Path("none", 0, 0, 0, 0)

\* Whole programs: calls and returns, a return on an empty stack, jumps.
FlowPrograms ==
    << <<Word(2, 2, 0, 8), Filler, Word(6, 10, 0, 1), Filler, Word(0, 0, 14, 14), Filler>>,
       <<Word(2, 2, 0, 12), Filler, Word(0, 0, 14, 14), Filler, Word(0, 0, 14, 14), Filler>>,
       <<Word(2, 2, 0, 2), Word(0, 0, 14, 14), Word(0, 0, 14, 14), Filler>>,
       <<Word(2, 2, 0, 4), Filler, Word(2, 2, 0, 10), Word(0, 0, 14, 14), Filler,
         Word(0, 0, 14, 14), Word(0, 0, 14, 14), Word(0, 0, 14, 14)>>,
       <<Word(2, 15, 15, 14), Filler>>,
       <<Word(2, 15, 15, 15), Filler>>,
       <<Word(0, 0, 14, 14)>>,
       <<Word(1, 2, 0, 8), Filler, Filler, Filler, Word(6, 0, 0, 3), Filler,
         Word(11, 2, 0, 1)>>,
       <<Word(1, 2, 0, 0)>> >>

\* The ROM directories the driver is started on, one per family of programs:
\*   "xy"  sets Vx = a and Vy = b (x, y the register nibbles of op) and runs op;
\*   "x"   sets Vx = a and runs op, then op2;
\*   "xy2" sets Vx = a and Vy = b and runs op twice;
\*   "ix"  sets I = b and Vx = a and runs op, then op2;
\*   "rep" runs op three times on the new machine's registers;
\*   "raw" is FlowPrograms[a];  "fill" is a bytes of 0x6A;
\*   "missing" does not exist;  "dir" opens and fails on the first read.
RegPairs == { <<1, 2>>, <<15, 1>>, <<1, 15>> }
ValuePairs == { <<0, 0>>, <<0, 1>>, <<1, 0>>, <<1, 255>>, <<255, 1>>,
                <<255, 255>>, <<200, 100>> }

Paths(dir) ==
    CASE dir = "alu" ->
            { Path("xy", v[1], v[2], Word(k[1], r[1], r[2], k[2]), 0) :
                v \in ValuePairs,
                k \in { <<8, 4>>, <<8, 5>>, <<8, 7>> }, r \in RegPairs }
      [] dir = "cmp" ->
            { Path("xy", v[1], v[2], Word(k[1], r[1], r[2], k[2]), 0) :
                v \in { <<0, 0>>, <<1, 255>>, <<255, 255>> },
                k \in { <<5, 0>>, <<9, 0>> }, r \in RegPairs }
            \cup { Path("x", a, 0, w, 0) :
                a \in {0, 1}, w \in { Word(3, 1, 0, 1), Word(4, 1, 0, 1) } }
            \cup { Path("x", 3, 0, Word(12, 1, 0, 15), Word(3, 1, 0, 1)),
                   Path("x", 3, 0, Word(4, 1, 0, 3), Word(12, 1, 15, 15)),
                   Path("x", 3, 0, Word(4, 1, 0, 3), Word(12, 2, 10, 10)) }
      [] dir = "keys" ->
            { Path("x", a, 0, w, 0) :
                a \in {0, 1, 16},
                w \in { Word(14, 1, 9, 14), Word(14, 1, 10, 1), Word(15, 1, 0, 10) } }
      [] dir = "flow" ->
            { Path("raw", n, 0, 0, 0) : n \in 1..Len(FlowPrograms) }
      [] dir = "load" ->
            { Path("fill", n, 0, 0, 0) : n \in {MEMORY_SIZE - PROGRAM_START,
                                               MEMORY_SIZE - PROGRAM_START + 1} }
            \cup { Path("raw", 1, 0, 0, 0), Path("raw", 9, 0, 0, 0),
                   Path("missing", 0, 0, 0, 0), Path("dir", 0, 0, 0, 0) }
      [] dir = "timers" ->
            { Path("x", a, 0, w[1], w[2]) :
                a \in {0, 1, 2, 3, 255},
                w \in { <<Word(15, 1, 1, 5), Word(15, 1, 1, 8)>>,
                        <<Word(15, 1, 1, 8), Word(15, 1, 1, 5)>>,
                        <<Word(15, 1, 1, 5), Word(15, 1, 0, 7)>>,
                        <<Word(15, 1, 1, 8), Word(15, 1, 0, 7)>> } }
      [] dir = "add" ->
            { Path("x", a, 0, w[1], w[2]) :
                a \in {0, 1, 200, 255},
                w \in { <<Word(7, 1, 0, 1), Word(7, 1, 15, 15)>>,
                        <<Word(7, 14, 3, 8), Word(7, 14, 3, 8)>>,
                        <<Word(7, 15, 15, 15), Word(7, 15, 0, 1)>> } }
      [] dir = "shift" ->
            { Path("xy", v[1], v[2], Word(8, r[1], r[2], k), 0) :
                v \in { <<0, 0>>, <<1, 128>>, <<128, 1>>, <<129, 255>>, <<255, 0>> },
                k \in {6, 14}, r \in { <<1, 2>>, <<15, 1>> } }
            \cup { Path("xy", 255, 1, Word(8, 1, 2, k), 0) : k \in {4, 5, 7} }
            \cup { Path("xy2", 3, 200, Word(13, 1, 2, 5), 0) }
      [] dir = "input" ->
            { Path("x", 1, 0, Word(14, 1, 9, 14), Word(15, 1, 0, 10)) }
      [] dir = "noop" ->
            { Path("xy", v[1], v[2], w, 0) :
                v \in { <<3, 3>>, <<3, 4>> },
                w \in { Word(5, 1, 2, 1), Word(8, 1, 2, 8), Word(8, 15, 2, 15),
                        Word(9, 1, 2, 1) } }
            \cup { Path("x", 3, 0, Word(14, 1, 0, 0), Word(0, 1, 2, 3)),
                   Path("x", 3, 0, Word(15, 1, 0, 0), Word(0, 0, 14, 1)),
                   Path("x", 3, 0, Word(14, 1, 9, 15), Word(15, 1, 5, 6)),
                   Path("x", 9, 0, Word(15, 1, 1, 5), Word(5, 1, 2, 1)),
                   Path("x", 2, 0, Word(15, 1, 1, 8), Word(8, 1, 2, 8)),
                   Path("x", 1, 0, Word(15, 1, 1, 8), Word(0, 15, 15, 15)) }
      [] dir = "mem" ->
            { Path("ix", 7, p[2], Word(15, p[1], 5, 5), Word(15, p[1], 6, 5)) :
                p \in { <<1, 0>>, <<1, MEMORY_SIZE - 2>>, <<1, MEMORY_SIZE - 1>>,
                        <<0, MEMORY_SIZE - 1>>, <<15, MEMORY_SIZE - 16>> } }
            \cup { Path("ix", v, 768, Word(15, 2, 3, 3), Word(15, 2, 6, 5)) :
                v \in { 0, 9, 10, 99, 100, 157, 255 } }
            \cup { Path("ix", 255, i, Word(15, 2, 3, 3), Word(15, 2, 3, 3)) :
                i \in { MEMORY_SIZE - 3, MEMORY_SIZE - 2, MEMORY_SIZE - 1 } }
            \cup { Path("ix", 1, MEMORY_SIZE - 1, Word(15, 1, 1, 14), Word(15, 1, 1, 14)),
                   Path("ix", 255, MEMORY_SIZE - 1, Word(15, 1, 1, 14), Word(15, 1, 3, 3)),
                   Path("ix", 255, 0, Word(15, 1, 2, 9), Word(15, 1, 1, 14)) }
      [] dir = "draw" ->
            { Path("xy2", v[1], v[2], w, 0) :
                v \in { <<0, 0>>, <<3, 200>>, <<255, 255>> },
                w \in { Word(13, 1, 2, 5), Word(13, 1, 2, 0), Word(13, 15, 1, 5),
                        Word(13, 1, 15, 15) } }
            \cup { Path("rep", 0, 0, w, 0) :
                w \in { Word(13, 0, 0, 5), Word(13, 0, 0, 15) } }
            \cup { Path("ix", 7, i, Word(13, 1, 1, 5), Word(13, 1, 1, 5)) :
                i \in { 5, PROGRAM_START, MEMORY_SIZE - 5, MEMORY_SIZE - 2 } }

ProgramWords(path) ==
    LET o == Nibbles(path.op) IN
    CASE path.kind = "xy" ->
            << Word(6, o.second, path.a \div 16, path.a % 16), Filler,
               Word(6, o.third, path.b \div 16, path.b % 16), Filler,
               path.op, Filler >>
      [] path.kind = "x" ->
            << Word(6, o.second, path.a \div 16, path.a % 16), Filler,
               path.op, Filler, path.op2, Filler >>
      [] path.kind = "xy2" ->
            << Word(6, o.second, path.a \div 16, path.a % 16), Filler,
               Word(6, o.third, path.b \div 16, path.b % 16), Filler,
               path.op, Filler, path.op, Filler >>
      [] path.kind = "ix" ->
            << 10 * 4096 + path.b, Filler,
               Word(6, o.second, path.a \div 16, path.a % 16), Filler,
               path.op, Filler, path.op2, Filler >>
      [] path.kind = "rep" ->
            << path.op, Filler, path.op, Filler, path.op, Filler >>
      [] path.kind = "raw" -> FlowPrograms[path.a]
      [] OTHER -> <<>>

File(path) ==
    [ exists     |-> path.kind # "missing",
      bytes      |-> IF path.kind = "fill" THEN [i \in 1..path.a |-> 106]
                     ELSE WordBytes(ProgramWords(path)),
      read_error |-> path.kind = "dir" ]

(***************************************************************************)
(* load_rom: every byte read is stored at memory[index + program_counter]; *)
(* a failed open or read returns Err, an index past the memory panics.     *)
(* The bytes stored before an Err or a panic stay in the memory.           *)
(***************************************************************************)
load_rom(c, path) ==
    LET f     == File(path)
        pc    == c.e.program_counter
        room  == IF pc >= MEMORY_SIZE THEN 0 ELSE MEMORY_SIZE - pc
        n     == IF Len(f.bytes) <= room THEN Len(f.bytes) ELSE room
        wrote == [c EXCEPT !.e.memory =
                     [a \in 0..(MEMORY_SIZE - 1) |->
                         IF a >= pc /\ a < pc + n THEN f.bytes[a - pc + 1]
                         ELSE c.e.memory[a]]]
    IN  IF ~f.exists THEN [call |-> c, ret |-> "Err"]
        ELSE IF Len(f.bytes) > room THEN [call |-> Panic(wrote), ret |-> "panic"]
        ELSE IF f.read_error THEN [call |-> wrote, ret |-> "Err"]
        ELSE [call |-> wrote, ret |-> "Ok"]

(***************************************************************************)
(* process_key (input.rs): the 16 symbols and their keypad slots.          *)
(***************************************************************************)
KeySymbols ==
    << "x", "p", "1", "2", "3", "4", "q", "w", "e", "r",
       "a", "s", "d", "f", "z", "c", "v" >>

\* KeySlot with '4' sent to slot 4, where 'q' already is.
KeySlot_4_as_digit(key) ==
    CASE key = "1" -> 1   [] key = "2" -> 2   [] key = "3" -> 3   [] key = "4" -> 4
      [] key = "q" -> 4   [] key = "w" -> 5   [] key = "e" -> 6   [] key = "r" -> 13
      [] key = "a" -> 7   [] key = "s" -> 8   [] key = "d" -> 9   [] key = "f" -> 14
      [] key = "z" -> 10  [] key = "x" -> 0   [] key = "c" -> 11  [] key = "v" -> 15
      [] OTHER -> -1

KeySlot(key) ==
    CASE key = "1" -> 1   [] key = "2" -> 2   [] key = "3" -> 3   [] key = "4" -> 12
      [] key = "q" -> 4   [] key = "w" -> 5   [] key = "e" -> 6   [] key = "r" -> 13
      [] key = "a" -> 7   [] key = "s" -> 8   [] key = "d" -> 9   [] key = "f" -> 14
      [] key = "z" -> 10  [] key = "x" -> 0   [] key = "c" -> 11  [] key = "v" -> 15
      [] OTHER -> -1

process_key(e, key, state) ==
    LET key_value == (state = "Down") IN
    IF KeySlot(key) = -1 THEN e
    ELSE [e EXCEPT !.keypad[KeySlot(key)] = key_value]

(***************************************************************************)
(* The state machine.  The driver creates the emulator, loads one ROM      *)
(* (after at most MaxIdle cycles), and then interleaves cycles and key     *)
(* events.  A panic ends the process.                                      *)
(***************************************************************************)
Init(dir) ==
    /\ emu = new
    /\ panicked = FALSE
    /\ overflow_checks \in BOOLEAN
    /\ roms = dir
    /\ stdout = 0
    /\ load_result = "none"
    /\ loaded = NoPath
    /\ hist = <<>>
    /\ cycles = 0

\* hist with the call `what` pushed, started from the current machine: the
\* last two calls are kept.
Remember(what) ==
    <<[what |-> what, e |-> emu, out |-> stdout]>>
        \o (IF hist = <<>> THEN <<>> ELSE <<hist[1]>>)

LoadRom ==
    /\ ~panicked
    /\ loaded = NoPath
    /\ cycles <= MaxIdle
    /\ \E path \in Paths(roms) :
          LET r == load_rom(Call(emu, stdout), path) IN
          /\ emu' = r.call.e
          /\ panicked' = r.call.panic
          /\ load_result' = r.ret
          /\ loaded' = path
    /\ hist' = Remember("load_rom")
    /\ UNCHANGED <<overflow_checks, roms, stdout, cycles>>

\* rand::random::<u8>() returns any byte.  Only _cxnn calls it: a cycle that
\* cannot fetch, or fetches another instruction, draws nothing.
RandomBytes == 0..(U8_MOD - 1)

DrawsRandom(e) ==
    /\ e.program_counter + 1 < MEMORY_SIZE
    /\ e.memory[e.program_counter] \div 16 = 12

EmulatorCycle ==
    /\ ~panicked
    /\ cycles < MaxCycles
    /\ \E rnd \in (IF DrawsRandom(emu) THEN RandomBytes ELSE {0}) :
          LET r == emulator_cycle(Call(emu, stdout), rnd) IN
          /\ emu' = r.e
          /\ panicked' = r.panic
          /\ stdout' = r.out
    /\ hist' = Remember("emulator_cycle")
    /\ cycles' = cycles + 1
    /\ UNCHANGED <<overflow_checks, roms, load_result, loaded>>

\* The symbols the window forwards: the first NumKeys of KeySymbols; in the
\* "input" session two recognized symbols and the unrecognized one.
KeysSent(dir) ==
    IF dir = "input" THEN {"x", "1", "p"}
    ELSE { KeySymbols[k] : k \in 1..NumKeys }

ProcessKey ==
    /\ ~panicked
    /\ \E key \in KeysSent(roms), state \in {"Up", "Down"} :
          emu' = process_key(emu, key, state)
    /\ UNCHANGED <<panicked, overflow_checks, roms, stdout, load_result, loaded, hist, cycles>>

InitAlu    == Init("alu")
InitCmp    == Init("cmp")
InitKeys   == Init("keys")
InitFlow   == Init("flow")
InitLoad   == Init("load")
InitTimers == Init("timers")
InitDraw   == Init("draw")
InitMem    == Init("mem")
InitNoop   == Init("noop")
InitInput  == Init("input")
InitAdd    == Init("add")
InitShift  == Init("shift")

Next == LoadRom \/ EmulatorCycle \/ ProcessKey

SpecAlu    == InitAlu /\ [][Next]_vars
SpecCmp    == InitCmp /\ [][Next]_vars
SpecKeys   == InitKeys /\ [][Next]_vars
SpecFlow   == InitFlow /\ [][Next]_vars
SpecLoad   == InitLoad /\ [][Next]_vars
SpecTimers == InitTimers /\ [][Next]_vars
SpecDraw   == InitDraw /\ [][Next]_vars
SpecMem    == InitMem /\ [][Next]_vars
SpecNoop   == InitNoop /\ [][Next]_vars
SpecInput  == InitInput /\ [][Next]_vars
SpecAdd    == InitAdd /\ [][Next]_vars
SpecShift  == InitShift /\ [][Next]_vars

(***************************************************************************)
(* Vocabulary of the properties.                                           *)
(***************************************************************************)
\* The last call was an emulator_cycle and it ran to its end.
CycleDone ==
    /\ hist # <<>>
    /\ hist[1].what = "emulator_cycle"
    /\ ~panicked

\* The last two calls were emulator_cycles and both ran to their end.
TwoCyclesDone ==
    /\ CycleDone
    /\ Len(hist) >= 2
    /\ hist[2].what = "emulator_cycle"

\* The instruction word a cycle started from machine e fetches.
WordAt(e) ==
    Nibbles(e.memory[e.program_counter] * 256 + e.memory[e.program_counter + 1])

\* The machine before the last cycle, and the instruction that cycle ran.
Before == hist[1].e
Ran == WordAt(hist[1].e)

Vx(e, op) == e.registers[op.second]
Vy(e, op) == e.registers[op.third]

\* Jump, call, return, skip and wait-key instructions.
IsControl(op) ==
    \/ op.first \in {1, 2, 3, 4, 11}
    \/ op = Nibbles(Word(0, 0, 14, 14))
    \/ op.first \in {5, 9} /\ op.fourth = 0
    \/ op.first = 14 /\ op.third = 9 /\ op.fourth = 14
    \/ op.first = 14 /\ op.third = 10 /\ op.fourth = 1
    \/ op.first = 15 /\ op.third = 0 /\ op.fourth = 10

\* The program counter a cycle started from machine e ends with when the
\* instruction at e.program_counter is a plain one (6000: V0 = 0).
SequentialPc(e) ==
    LET plain == [e EXCEPT !.memory[e.program_counter] = 96,
                           !.memory[e.program_counter + 1] = 0]
    IN  emulator_cycle(Call(plain, 0), 0).e.program_counter

(***************************************************************************)
(* C1.  A cycle that runs an instruction other than a jump, call, return,  *)
(* skip or wait-key ends with the program counter 2 past where it began.   *)
(***************************************************************************)
C1_PlainStepAdvancesByTwo ==
    (CycleDone /\ ~IsControl(Ran))
        => emu.program_counter = Before.program_counter + 2

(***************************************************************************)
(* C2.  A 2NNN cycle at A followed by a 00EE cycle leaves the program      *)
(* counter where a plain instruction at A would have left it, and the      *)
(* stack pointer at its value before the call.                             *)
(***************************************************************************)
CallThenReturn ==
    /\ TwoCyclesDone
    /\ WordAt(hist[2].e).first = 2
    /\ Ran = Nibbles(Word(0, 0, 14, 14))

C2_CallReturnRoundTrip ==
    CallThenReturn =>
        /\ Before.program_counter = merged_opcode(WordAt(hist[2].e)) % 4096
        /\ emu.program_counter = SequentialPc(hist[2].e)
        /\ emu.stack_pointer = hist[2].e.stack_pointer

C2_Witness ==
    /\ CallThenReturn
    /\ hist[2].e.stack_pointer = 1
    /\ emu.stack_pointer = 1
    /\ emu.program_counter = hist[2].e.program_counter + 4

(***************************************************************************)
(* C3.  With Vx in 0..15, EX9E skips the next instruction exactly when     *)
(* keypad[Vx] is pressed and EXA1 exactly when it is not: the skipping     *)
(* case ends 2 past the non-skipping case.                                 *)
(***************************************************************************)
IsEX9E(op) == op.first = 14 /\ op.third = 9 /\ op.fourth = 14
IsEXA1(op) == op.first = 14 /\ op.third = 10 /\ op.fourth = 1

C3_KeySkipsFollowKeypad ==
    (CycleDone /\ (IsEX9E(Ran) \/ IsEXA1(Ran)) /\ Vx(Before, Ran) < KEYPAD_SIZE)
        => LET pressed == Before.keypad[Vx(Before, Ran)]
               skips   == IF IsEX9E(Ran) THEN pressed ELSE ~pressed
           IN  emu.program_counter =
                   SequentialPc(Before) + (IF skips THEN 2 ELSE 0)

(***************************************************************************)
(* C4.  FX0A with keypad[Vx] not pressed leaves the program counter on the *)
(* FX0A itself; with keypad[Vx] pressed it moves on to the instruction     *)
(* that follows.                                                           *)
(***************************************************************************)
IsFX0A(op) == op.first = 15 /\ op.third = 0 /\ op.fourth = 10

C4_WaitKeyHoldsPc ==
    (CycleDone /\ IsFX0A(Ran) /\ Vx(Before, Ran) < KEYPAD_SIZE)
        => IF Before.keypad[Vx(Before, Ran)]
           THEN emu.program_counter = SequentialPc(Before)
           ELSE emu.program_counter = Before.program_counter

(***************************************************************************)
(* C5.  5XY0 skips the next instruction exactly when Vx = Vy.              *)
(***************************************************************************)
C5_SkipIfRegistersEqual ==
    (CycleDone /\ Ran.first = 5 /\ Ran.fourth = 0)
        => emu.program_counter =
               SequentialPc(Before)
                   + (IF Vx(Before, Ran) = Vy(Before, Ran) THEN 2 ELSE 0)

(***************************************************************************)
(* C6.  After 8XY4 VF is 1 if Vx + Vy > 255 and 0 otherwise; after 8XY5 VF *)
(* is 0 if Vx < Vy and 1 otherwise; after 8XY7 VF is 0 if Vy < Vx and 1    *)
(* otherwise, for every choice of X and Y.                                 *)
(***************************************************************************)
C6_FlagFollowsCarryAndBorrow ==
    (CycleDone /\ Ran.first = 8 /\ Ran.fourth \in {4, 5, 7})
        => LET x == Vx(Before, Ran)
               y == Vy(Before, Ran)
           IN  emu.registers[15] =
                   CASE Ran.fourth = 4 -> (IF x + y > 255 THEN 1 ELSE 0)
                     [] Ran.fourth = 5 -> (IF x < y THEN 0 ELSE 1)
                     [] Ran.fourth = 7 -> (IF y < x THEN 0 ELSE 1)

(***************************************************************************)
(* C7.  A load that succeeds leaves the file's bytes at 0x200, 0x201, ...  *)
(* and every other memory byte as it was, whatever the program counter.    *)
(***************************************************************************)
LoadDone == hist # <<>> /\ hist[1].what = "load_rom"

LoadedBytes == File(loaded).bytes

C7_LoadPlacesImageAt0x200 ==
    (LoadDone /\ load_result = "Ok")
        => \A a \in 0..(MEMORY_SIZE - 1) :
              emu.memory[a] =
                  IF a >= PROGRAM_START /\ a < PROGRAM_START + Len(LoadedBytes)
                  THEN LoadedBytes[a - PROGRAM_START + 1]
                  ELSE Before.memory[a]

(***************************************************************************)
(* C8.  Loading a readable image of exactly 4096 - 0x200 bytes succeeds    *)
(* and fills the memory to its last byte; loading a longer one returns an  *)
(* error and leaves the whole machine as it was.                           *)
(***************************************************************************)
C8_LoadBoundCheck ==
    (LoadDone /\ File(loaded).exists /\ ~File(loaded).read_error)
        => /\ Len(LoadedBytes) = MEMORY_SIZE - PROGRAM_START
                => /\ load_result = "Ok"
                   /\ \A a \in PROGRAM_START..(MEMORY_SIZE - 1) :
                         emu.memory[a] = LoadedBytes[a - PROGRAM_START + 1]
           /\ Len(LoadedBytes) > MEMORY_SIZE - PROGRAM_START
                => /\ load_result = "Err"
                   /\ ~panicked
                   /\ emu = Before

(***************************************************************************)
(* C9.  A cycle prints one beep exactly when its timer update starts with  *)
(* the sound timer at 1 (and takes it to 0); any other cycle, a cycle that *)
(* panics and a load print none.                                           *)
(***************************************************************************)
IsFX15(op) == op.first = 15 /\ op.third = 1 /\ op.fourth = 5
IsFX18(op) == op.first = 15 /\ op.third = 1 /\ op.fourth = 8

\* The beeps the last call printed.
Beeps == stdout - hist[1].out

\* The timers as the last cycle's instruction left them for update_timer.
DelayAtUpdate == IF IsFX15(Ran) THEN Vx(Before, Ran) ELSE Before.delay_timer
SoundAtUpdate == IF IsFX18(Ran) THEN Vx(Before, Ran) ELSE Before.sound_timer

C9_BeepExactlyOnOneToZero ==
    hist # <<>> =>
        IF CycleDone
        THEN /\ Beeps = (IF SoundAtUpdate = 1 THEN 1 ELSE 0)
             /\ Beeps = 1 => emu.sound_timer = 0
        ELSE Beeps = 0

C9_Witness ==
    /\ CycleDone
    /\ ~IsFX18(Ran)
    /\ Before.sound_timer = 1
    /\ emu.sound_timer = 0
    /\ Beeps = 1

(***************************************************************************)
(* C10.  Every cycle leaves each timer one below the value its instruction *)
(* left it with, or at 0 if that was 0, each timer on its own.             *)
(***************************************************************************)
DownToZero(t) == IF t > 0 THEN t - 1 ELSE 0

C10_TimersCountDownToZero ==
    CycleDone =>
        /\ emu.delay_timer = DownToZero(DelayAtUpdate)
        /\ emu.sound_timer = DownToZero(SoundAtUpdate)
        /\ emu.delay_timer \in 0..(U8_MOD - 1)
        /\ emu.sound_timer \in 0..(U8_MOD - 1)

C10_Witness ==
    /\ CycleDone
    /\ ~IsFX15(Ran) /\ ~IsFX18(Ran)
    /\ Before.delay_timer = 0
    /\ Before.sound_timer > 1
    /\ emu.delay_timer = 0
    /\ emu.sound_timer = Before.sound_timer - 1

(***************************************************************************)
(* C11.  Two DXYN cycles in a row with the same N, the same sprite bytes   *)
(* and the same (Vx, Vy) leave every framebuffer cell as it was before the *)
(* first; the second sets VF = 1 whenever the first set a pixel, and       *)
(* leaves VF = 0 only if the first set none.                               *)
(***************************************************************************)
SpriteBytes(e, n) == [j \in 0..(n - 1) |-> e.memory[e.index_register + j]]

SameDrawTwice ==
    /\ TwoCyclesDone
    /\ Ran.first = 13
    /\ WordAt(hist[2].e) = Ran
    /\ Vx(hist[2].e, Ran) = Vx(Before, Ran)
    /\ Vy(hist[2].e, Ran) = Vy(Before, Ran)
    /\ SpriteBytes(hist[2].e, Ran.fourth) = SpriteBytes(Before, Ran.fourth)

\* The pixels the first of the two draws turned on.
FirstDrawSet == Before.gfx \ hist[2].e.gfx

C11_DrawTwiceRestores ==
    SameDrawTwice =>
        /\ emu.gfx = hist[2].e.gfx
        /\ FirstDrawSet # {} => emu.registers[15] = 1
        /\ emu.registers[15] = 0 => FirstDrawSet = {}

\* The claim as written: VF = 0 on the second draw only if the sprite toggled nothing.
C11_AsWritten ==
    SameDrawTwice =>
        /\ emu.gfx = hist[2].e.gfx
        /\ FirstDrawSet # {} => emu.registers[15] = 1
        /\ emu.registers[15] = 0 => Before.gfx = hist[2].e.gfx

C11_Witness ==
    /\ SameDrawTwice
    /\ Vx(Before, Ran) = 3 /\ Vy(Before, Ran) = 200
    /\ Cardinality(FirstDrawSet) = 14
    /\ emu.gfx = {}
    /\ emu.registers[15] = 1

(***************************************************************************)
(* C12.  FX55 followed by FX65 with the same X (both completing, so I + X  *)
(* is inside memory) leaves every register as it was before the dump:      *)
(* V0..VX are restored, the registers above VX are untouched, and neither  *)
(* instruction changes I.                                                  *)
(***************************************************************************)
DumpThenLoad ==
    /\ TwoCyclesDone
    /\ WordAt(hist[2].e) = [Ran EXCEPT !.third = 5]
    /\ Ran.first = 15 /\ Ran.third = 6 /\ Ran.fourth = 5

C12_DumpLoadRoundTrip ==
    DumpThenLoad =>
        /\ \A r \in 0..(REGISTER_SIZE - 1) :
              emu.registers[r] = hist[2].e.registers[r]
        /\ Before.index_register = hist[2].e.index_register
        /\ emu.index_register = hist[2].e.index_register

\* The round trip over font bytes that differ from the registers dumped on them.
C12_Witness ==
    /\ DumpThenLoad
    /\ Ran.second = 1
    /\ emu.index_register = 0
    /\ hist[2].e.memory[0] = 240 /\ hist[2].e.memory[1] = 144
    /\ emu.registers[0] = 0 /\ emu.registers[1] = 7
    /\ emu.memory[0] = 0 /\ emu.memory[1] = 7

(***************************************************************************)
(* C13.  In every reachable state the stack pointer is between 0 and 16:   *)
(* a return on the empty stack and a call on the full stack stop the step  *)
(* without taking the pointer outside that range.                          *)
(***************************************************************************)
C13_StackPointerInBounds ==
    emu.stack_pointer >= 0 /\ emu.stack_pointer <= STACK_SIZE

(***************************************************************************)
(* C14.  A cycle whose instruction matches no handler (5XY1, 8XY8, 9XY1,   *)
(* EX00, FX00, ...) or is 0NNN never fails and leaves registers, I,        *)
(* memory, stack, stack pointer, framebuffer and keypad as they were; it   *)
(* only advances the program counter as a plain instruction does and       *)
(* counts the timers down.                                                 *)
(***************************************************************************)
IsUnmatched(op) ==
    \/ op.first = 0 /\ ~(op.second = 0 /\ op.third = 14 /\ op.fourth \in {0, 14})
    \/ op.first \in {5, 9} /\ op.fourth # 0
    \/ op.first = 8 /\ op.fourth \notin (0..7) \cup {14}
    \/ op.first = 14 /\ <<op.third, op.fourth>> \notin { <<9, 14>>, <<10, 1>> }
    \/ op.first = 15 /\ <<op.third, op.fourth>> \notin
          { <<0, 7>>, <<0, 10>>, <<1, 5>>, <<1, 8>>, <<1, 14>>, <<2, 9>>,
            <<3, 3>>, <<5, 5>>, <<6, 5>> }

\* A step of the driver that is a cycle which can fetch, and fetches an
\* unmatched word.
UnmatchedStep ==
    /\ cycles' = cycles + 1
    /\ emu.program_counter + 1 < MEMORY_SIZE
    /\ IsUnmatched(WordAt(emu))

C14_UnmatchedIsNoOp ==
    [][UnmatchedStep =>
        /\ ~panicked'
        /\ emu'.registers = emu.registers
        /\ emu'.index_register = emu.index_register
        /\ emu'.memory = emu.memory
        /\ emu'.stack = emu.stack
        /\ emu'.stack_pointer = emu.stack_pointer
        /\ emu'.gfx = emu.gfx
        /\ emu'.keypad = emu.keypad
        /\ emu'.program_counter = SequentialPc(emu)
        /\ emu'.delay_timer = DownToZero(emu.delay_timer)
        /\ emu'.sound_timer = DownToZero(emu.sound_timer)]_vars

\* The last call was a cycle that ran an unmatched word to its end.
RanUnmatched == CycleDone /\ IsUnmatched(Ran)

\* 5121 run with V1 = 9, V2 = 0 while the delay timer counts down from 9.
C14_Witness ==
    /\ RanUnmatched
    /\ Ran = Nibbles(Word(5, 1, 2, 1))
    /\ emu.registers[1] = 9
    /\ Before.delay_timer = 8 /\ emu.delay_timer = 7
    /\ emu.program_counter = Before.program_counter + 4

(***************************************************************************)
(* C15.  The index register is at most 0xFFF in every reachable state.     *)
(***************************************************************************)
C15_IndexWithinTwelveBits == emu.index_register <= MEMORY_SIZE - 1

(***************************************************************************)
(* C16.  After a completed FX33 cycle memory[I], memory[I + 1] and         *)
(* memory[I + 2] are the hundreds, tens and ones decimal digits of Vx;     *)
(* the registers, I and every other memory byte are unchanged.             *)
(***************************************************************************)
RanBcd == CycleDone /\ Ran.first = 15 /\ Ran.third = 3 /\ Ran.fourth = 3

C16_BcdStore ==
    RanBcd =>
        LET i == Before.index_register IN
        /\ \A d \in 0..2 : emu.memory[i + d] \in 0..9
        /\ 100 * emu.memory[i] + 10 * emu.memory[i + 1] + emu.memory[i + 2]
              = Vx(Before, Ran)
        /\ \A a \in DOMAIN emu.memory :
              a \notin i..(i + 2) => emu.memory[a] = Before.memory[a]
        /\ emu.registers = Before.registers
        /\ emu.index_register = i

C16_Witness ==
    /\ RanBcd
    /\ Vx(Before, Ran) = 157
    /\ emu.index_register = 768
    /\ emu.memory[768] = 1 /\ emu.memory[769] = 5 /\ emu.memory[770] = 7

(***************************************************************************)
(* C17.  process_key with a recognized symbol sets exactly one keypad      *)
(* slot, the symbol's own, to the event's state and changes nothing else;  *)
(* the 16 recognized symbols are one-to-one onto the slots 0..F; an        *)
(* unrecognized symbol changes nothing.  A key event of the driver changes *)
(* at most one slot and nothing else, and cycles and loads never change    *)
(* the keypad, so a slot holds the state of its symbol's last event.       *)
(***************************************************************************)
Recognized ==
    { "1", "2", "3", "4", "q", "w", "e", "r", "a", "s", "d", "f", "z", "x", "c", "v" }

AllSymbols == { KeySymbols[k] : k \in DOMAIN KeySymbols }

Slots == 0..(KEYPAD_SIZE - 1)

\* The slots whose value after process_key(symbol, Down) and after
\* process_key(symbol, Up) on the current machine differ.
Touched(symbol) ==
    { k \in Slots : process_key(emu, symbol, "Down").keypad[k]
                      # process_key(emu, symbol, "Up").keypad[k] }

TranslatorOnCurrentMachine ==
    /\ \A symbol \in AllSymbols \cap Recognized, state \in {"Up", "Down"} :
          \E k \in Slots :
             /\ Touched(symbol) = {k}
             /\ process_key(emu, symbol, state)
                   = [emu EXCEPT !.keypad[k] = (state = "Down")]
    /\ \A k \in Slots :
          Cardinality({ symbol \in AllSymbols \cap Recognized : k \in Touched(symbol) }) = 1
    /\ Cardinality(AllSymbols \cap Recognized) = KEYPAD_SIZE
    /\ \A symbol \in AllSymbols \ Recognized, state \in {"Up", "Down"} :
          process_key(emu, symbol, state) = emu

\* A step of the driver that is neither a cycle nor a load.
KeyStep == cycles' = cycles /\ loaded' = loaded

C17_InputTranslator ==
    /\ []TranslatorOnCurrentMachine
    /\ [][KeyStep =>
             \E k \in Slots : emu' = [emu EXCEPT !.keypad[k] = ~emu.keypad[k]]]_vars
    /\ [][~KeyStep => emu'.keypad = emu.keypad]_vars

\* 'x' was down before the last cycle and has been released since; '1' is down.
C17_Witness ==
    /\ CycleDone
    /\ Before.keypad[0] /\ ~Before.keypad[1]
    /\ ~emu.keypad[0] /\ emu.keypad[1]
    /\ \A k \in Slots \ {1} : ~emu.keypad[k]

(***************************************************************************)
(* C18.  A 7XNN cycle with X in 0..E never fails and leaves                *)
(* Vx = (Vx + NN) mod 256 with VF and every other register unchanged,      *)
(* also when Vx + NN exceeds 255.                                          *)
(***************************************************************************)
RanAdd ==
    /\ hist # <<>>
    /\ hist[1].what = "emulator_cycle"
    /\ Before.program_counter + 1 < MEMORY_SIZE
    /\ Ran.first = 7
    /\ Ran.second # 15

C18_AddImmediateWraps ==
    RanAdd =>
        /\ ~panicked
        /\ emu.registers =
              [Before.registers EXCEPT
                  ![Ran.second] = (Vx(Before, Ran) + 16 * Ran.third + Ran.fourth) % 256]

(***************************************************************************)
(* C19.  A completed DXYN cycle toggles exactly the cells                  *)
(* ((Vx + i) mod width, (Vy + j) mod height) for the set bits i (counted   *)
(* from the most significant) of the rows j < N at memory[I + j]; VF is 1  *)
(* if one of those cells was lit before and 0 otherwise; I and the memory  *)
(* are unchanged.                                                          *)
(***************************************************************************)
RanDraw == CycleDone /\ Ran.first = 13

\* The cells <<row, column>> under the set bits of the sprite of the last cycle.
SpriteTargets ==
    LET i == Before.index_register IN
    { <<(Vy(Before, Ran) + j) % SCREEN_HEIGHT, (Vx(Before, Ran) + b) % SCREEN_WIDTH>> :
        <<j, b>> \in { jb \in (0..(Ran.fourth - 1)) \X (0..7) :
            (Before.memory[i + jb[1]] \div (2 ^ (7 - jb[2]))) % 2 = 1 } }

C19_DrawTogglesSpriteCells ==
    RanDraw =>
        /\ emu.gfx = (Before.gfx \ SpriteTargets) \cup (SpriteTargets \ Before.gfx)
        /\ emu.registers[15] = (IF SpriteTargets \cap Before.gfx # {} THEN 1 ELSE 0)
        /\ emu.index_register = Before.index_register
        /\ emu.memory = Before.memory

\* The sprite at I = 0x200 (the program's own bytes) drawn over itself:
\* every lit cell goes dark and VF reports the collision.
C19_Witness ==
    /\ RanDraw
    /\ Before.index_register = PROGRAM_START
    /\ Vx(Before, Ran) = 7 /\ Vy(Before, Ran) = 7
    /\ <<7, 7>> \in Before.gfx /\ <<7, 8>> \notin Before.gfx
    /\ emu.gfx = {}
    /\ emu.registers[15] = 1

(***************************************************************************)
(* C20.  After a completed 8XY4, 8XY5, 8XY6, 8XY7, 8XYE or DXYN cycle with *)
(* X other than F, VF is 0 or 1; after 8XYE it is 1 exactly when Vx had    *)
(* its most significant bit set, and Vx is twice its old value modulo 256. *)
(***************************************************************************)
SetsFlag(op) ==
    \/ op.first = 8 /\ op.fourth \in {4, 5, 6, 7, 14}
    \/ op.first = 13

RanFlagSetter == CycleDone /\ SetsFlag(Ran) /\ Ran.second # 15

C20_FlagIsBoolean ==
    RanFlagSetter =>
        /\ emu.registers[15] \in {0, 1}
        /\ (Ran.first = 8 /\ Ran.fourth = 14) =>
              /\ emu.registers[15] = (IF Vx(Before, Ran) >= 128 THEN 1 ELSE 0)
              /\ emu.registers[Ran.second] = (2 * Vx(Before, Ran)) % 256

====
